---------------------------- MODULE Spec2Model ----------------------------
(***************************************************************************)
(* A model of three pieces of nmdc-runtime:                                *)
(*   - find_data_objects_for_study and get_classname_from_typecode         *)
(*     (src/nmdc_runtime/api/endpoints/find.py),                           *)
(*   - drs_object_in_for(url) and specialize_activity_set_docs             *)
(*     (src/nmdc_runtime/site/drsobjects/registration.py),                 *)
(*   - drs_metadata_for (src/nmdc_runtime/util.py).                        *)
(* Text (ids, class names, file names) is a sequence of tokens; the        *)
(* separators ":" and "-" are tokens of their own, so that str.split is    *)
(* modelled by what it does.  Python's None is the value None below.       *)
(***************************************************************************)
EXTENDS Naturals, Sequences, FiniteSets

VARIABLES
    \* --- find_data_objects_for_study: the store and the handler's locals
    mdb,                     \* the document store (collections in natural order)
    pc,                      \* position of the handler
    study_id,                \* the request's path parameter
    study,                   \* result of the study lookup
    biosample_ids,
    bidx,                    \* position of `for biosample_id in biosample_ids`
    current_ids,
    cidx,                    \* position of `for current_id in current_ids`
    new_current_ids,
    has_output,
    oidx,                    \* position of `for output_id in has_output`
    collected_data_objects,
    biosample_data_objects,
    raised,                  \* the exception that left the handler (<<>>: none)
    queried,                 \* the collections the handler has queried so far
    loop_heads,              \* history: the (frontier, collected) pairs with which the
                             \* while loop of the current biosample has begun a pass
    \* --- drs_metadata_for(filepath, base)
    mpc,                     \* position of the builder: the key it checks next
    mfile,                   \* the file at filepath
    mbase,                   \* the base mapping, filled in place
    mbase0,                  \* history: the base mapping as the caller passed it
    \* --- drs_object_in_for(url): the scratch storage and the calls in flight
    dirs,                    \* the temporary directories that exist
    files,                   \* the files that exist, as <<directory, name, content>>
    next_tmp,                \* how many temporary directories have been made
    rpc,                     \* rpc[c]: position of call c
    rurl,                    \* rurl[c]: its url
    save_dir,                \* save_dir[c]: its TemporaryDirectory
    response,                \* response[c]: what fetch_url returned
    json_data,
    filepath,
    outcome,                 \* outcome[c]: what the call returned or raised
    fetch_raised,            \* history: fetch_url raised in call c
    written,                 \* history: the scratch files call c has written
    built,                   \* history: call c built a descriptor
    \* --- specialize_activity_set_docs(docs)
    nmdc_jsonschema,         \* the properties of the loaded schema, in order
    apc,                     \* position of the function
    docs,                    \* the mapping collection name -> records, changed in place
    docs0,                   \* history: docs as the caller passed it
    validation_errors,
    type_collections,
    aidx                     \* position of `for doc in docs["activity_set"]`

resolverVars == <<mdb, pc, study_id, study, biosample_ids, bidx, current_ids, cidx,
                  new_current_ids, has_output, oidx, collected_data_objects,
                  biosample_data_objects, raised, queried, loop_heads>>

metaVars == <<mpc, mfile, mbase, mbase0>>

regVars == <<dirs, files, next_tmp, rpc, rurl, save_dir, response, json_data, filepath,
             outcome, fetch_raised, written, built>>

actVars == <<nmdc_jsonschema, apc, docs, docs0, validation_errors, type_collections, aidx>>

vars == <<resolverVars, metaVars, regVars, actVars>>

nonResolverVars == <<metaVars, regVars, actVars>>
nonMetaVars == <<resolverVars, regVars, actVars>>
nonRegVars == <<resolverVars, metaVars, actVars>>
nonActVars == <<resolverVars, metaVars, regVars>>

\* Python's None where a document (a mapping) is expected.
None == [none |-> TRUE]

-----------------------------------------------------------------------------
(* Bounds of the model.                                                    *)

MaxEdges == 3          \* most edge records in alldocs
MaxFrontier == 4       \* longest frontier list followed before a run is cut
MaxCollected == 4      \* longest list of collected data objects before a run is cut
NumCalls == 2          \* calls of drs_object_in_for in flight together
MaxActivities == 3     \* most records in the activity_set list passed in
MaxListLen == 5        \* longest activity_set list followed before a run is cut

-----------------------------------------------------------------------------
(* Text helpers.                                                           *)

RECURSIVE Split(_, _)
\* str.split(sep): the pieces between the occurrences of sep (always >= 1 piece).
Split(s, sep) ==
    IF \A i \in 1..Len(s) : s[i] # sep
    THEN <<s>>
    ELSE LET i == CHOOSE k \in 1..Len(s) :
                     s[k] = sep /\ \A j \in 1..(k - 1) : s[j] # sep
         IN <<SubSeq(s, 1, i - 1)>> \o Split(SubSeq(s, i + 1, Len(s)), sep)

\* The outcome of a call: a returned value, a returned None, or an exception.
Ret(v) == [kind |-> "return", val |-> v]
RetNone == [kind |-> "none", val |-> <<>>]
Raise(e) == [kind |-> "raise", val |-> e]

-----------------------------------------------------------------------------
(* The typecode registry (nmdc_runtime.minter.config.typecodes) and        *)
(* get_classname_from_typecode.                                            *)

typecodes ==
    << [name |-> <<"sty">>,   schema_class |-> <<"nmdc", ":", "Study">>],
       [name |-> <<"bsm">>,   schema_class |-> <<"nmdc", ":", "Biosample">>],
       [name |-> <<"omprc">>, schema_class |-> <<"nmdc", ":", "OmicsProcessing">>],
       [name |-> <<"dobj">>,  schema_class |-> <<"nmdc", ":", "DataObject">>] >>

\* class_map.get(typecode) for the dict built by the comprehension: a later
\* entry of the same name replaces an earlier one.
class_map_get(typecode) ==
    LET hits == {i \in 1..Len(typecodes) : typecodes[i].name = typecode}
    IN IF hits = {} THEN RetNone
       ELSE LET last == CHOOSE i \in hits : \A j \in hits : j <= i
            IN Ret(Split(typecodes[last].schema_class, ":")[2])

get_classname_from_typecode(doc_id) ==
    LET parts == Split(doc_id, ":")
    IN IF Len(parts) < 2
       THEN Raise(<<"IndexError">>)
       ELSE class_map_get(Split(parts[2], "-")[1])

-----------------------------------------------------------------------------
(* Ids and the stores a run starts from.                                   *)

Id(code, n) == <<"nmdc", ":", code, "-", n>>

S1 == Id("sty", "1")
S2 == Id("sty", "2")          \* no study_set record has this id
S3 == Id("sty", "3")
B1 == Id("bsm", "1")
B2 == Id("bsm", "2")
B3 == Id("bsm", "3")
P1 == Id("omprc", "1")
P2 == Id("omprc", "2")
D1 == Id("dobj", "1")
D2 == Id("dobj", "2")
U1 == Id("zzz", "1")          \* a typecode the registry does not know
N1 == <<"bogus", "-", "1">>   \* an id with no ":" at all

Edge(ins, outs) == [has_input |-> ins, has_output |-> outs]

\* The edge records alldocs is drawn from.
EdgePool ==
    { Edge(<<B1>>, <<D1>>),
      Edge(<<B1>>, <<P1, D2>>),
      Edge(<<B2>>, <<P1, D2, P2>>),
      Edge(<<P1>>, <<U1, D1>>),
      Edge(<<P2, B1>>, <<P2, P1>>),
      Edge(<<P2>>, <<D2, P2, P2>>),
      [has_input |-> <<B1>>],
      Edge(<<P1>>, <<N1>>),
      Edge(<<P2>>, <<>>) }

Range(q) == {q[i] : i \in 1..Len(q)}

\* The sequences without repetition of at most n elements of S.
RECURSIVE SeqsNoRep(_, _)
SeqsNoRep(S, n) ==
    IF n = 0 THEN {<<>>}
    ELSE LET shorter == SeqsNoRep(S, n - 1)
         IN shorter \cup UNION {{Append(q, e) : e \in S \ Range(q)} : q \in shorter}

AllDocsChoices == SeqsNoRep(EdgePool, MaxEdges)

BiosampleSetChoices ==
    { << [id |-> B3, part_of |-> <<S3>>], [id |-> B1, part_of |-> <<S1>>],
         [id |-> B2, part_of |-> <<S1, S3>>] >>,
      << [id |-> B2, part_of |-> <<S1>>], [id |-> B1, part_of |-> <<S1>>] >>,
      << [id |-> B3, part_of |-> <<S3>>] >> }

DataObjectDoc(id) == [_id |-> <<"oid">> \o id, id |-> id, name |-> <<"file">>]

DataObjectSetChoices ==
    { <<DataObjectDoc(D2), DataObjectDoc(D1)>>, <<DataObjectDoc(D2)>> }

StudySet == << [id |-> S1, name |-> <<"study">>], [id |-> S3, name |-> <<"other">>] >>

-----------------------------------------------------------------------------
(* The store's lookups (pymongo find_one / find over a collection kept in  *)
(* natural order) and the helpers of nmdc_runtime.api.                     *)

\* A query {field: value} on an array field matches a document whose array
\* contains the value.
Matches(doc, field, value) ==
    /\ field \in DOMAIN doc
    /\ value \in Range(doc[field])

MatchesId(doc, value) == "id" \in DOMAIN doc /\ doc.id = value

\* collection.find_one({"id": value}): the first document with that id, or None.
find_one_by_id(coll, value) ==
    LET hits == {i \in 1..Len(coll) : MatchesId(coll[i], value)}
    IN IF hits = {} THEN None
       ELSE coll[CHOOSE i \in hits : \A j \in hits : i <= j]

\* collection.find_one({field: value}): the first matching document, or None.
find_one(coll, field, value) ==
    LET hits == {i \in 1..Len(coll) : Matches(coll[i], field, value)}
    IN IF hits = {} THEN None
       ELSE coll[CHOOSE i \in hits : \A j \in hits : i <= j]

RECURSIVE find(_, _, _)
\* collection.find({field: value}): the matching documents, in natural order.
find(coll, field, value) ==
    IF coll = <<>> THEN <<>>
    ELSE (IF Matches(Head(coll), field, value) THEN <<Head(coll)>> ELSE <<>>)
         \o find(Tail(coll), field, value)

\* strip_oid: the document without its storage identity field.
strip_oid(doc) == [k \in DOMAIN doc \ {"_id"} |-> doc[k]]

\* raise404_if_none: the document, or an HTTP 404 when the lookup found none.
raise404_if_none(doc, detail) ==
    IF doc = None THEN Raise(<<"404", detail>>) ELSE Ret(doc)

\* `not doc.get(field)` for a list field: the field is absent (None) or empty.
NotGet(doc, field) == field \notin DOMAIN doc \/ doc[field] = <<>>

-----------------------------------------------------------------------------
(* find_data_objects_for_study, one action per step of the handler.        *)

ResolverInit ==
    /\ mdb \in [study_set : {StudySet},
                biosample_set : BiosampleSetChoices,
                alldocs : AllDocsChoices,
                data_object_set : DataObjectSetChoices]
    /\ pc = "idle"
    /\ study_id = None
    /\ study = None
    /\ biosample_ids = <<>>
    /\ bidx = 0
    /\ current_ids = <<>>
    /\ cidx = 0
    /\ new_current_ids = <<>>
    /\ has_output = <<>>
    /\ oidx = 0
    /\ collected_data_objects = <<>>
    /\ biosample_data_objects = <<>>
    /\ raised = <<>>
    /\ queried = {}
    /\ loop_heads = {}

\* GET /data_objects/study/{study_id} arrives; biosample_data_objects = [].
Request ==
    /\ pc = "idle"
    /\ \E sid \in {S1, S2} : study_id' = sid
    /\ biosample_data_objects' = <<>>
    /\ pc' = "find_study"
    /\ UNCHANGED <<mdb, study, biosample_ids, bidx, current_ids, cidx, new_current_ids,
                   has_output, oidx, collected_data_objects, raised, queried, loop_heads>>
    /\ UNCHANGED nonResolverVars

\* study = raise404_if_none(mdb.study_set.find_one({"id": study_id}, ["id"]), ...)
FindStudy ==
    /\ pc = "find_study"
    /\ LET found == raise404_if_none(find_one_by_id(mdb.study_set, study_id),
                                     "Study not found")
       IN /\ queried' = queried \cup {"study_set"}
          /\ IF found.kind = "raise"
             THEN /\ raised' = found.val
                  /\ pc' = "raised"
                  /\ UNCHANGED study
             ELSE /\ study' = [id |-> found.val.id]
                  /\ pc' = "find_biosamples"
                  /\ UNCHANGED raised
    /\ UNCHANGED <<mdb, study_id, biosample_ids, bidx, current_ids, cidx, new_current_ids,
                   has_output, oidx, collected_data_objects, biosample_data_objects,
                   loop_heads>>
    /\ UNCHANGED nonResolverVars

\* biosamples = mdb.biosample_set.find({"part_of": study["id"]}, ["id"]);
\* biosample_ids = [biosample["id"] for biosample in biosamples]
FindBiosamples ==
    /\ pc = "find_biosamples"
    /\ LET biosamples == find(mdb.biosample_set, "part_of", study.id)
       IN biosample_ids' = [i \in 1..Len(biosamples) |-> biosamples[i].id]
    /\ queried' = queried \cup {"biosample_set"}
    /\ bidx' = 1
    /\ pc' = "for_biosample"
    /\ UNCHANGED <<mdb, study_id, study, current_ids, cidx, new_current_ids, has_output,
                   oidx, collected_data_objects, biosample_data_objects, raised,
                   loop_heads>>
    /\ UNCHANGED nonResolverVars

\* for biosample_id in biosample_ids: current_ids = [biosample_id];
\* collected_data_objects = []; after the last one, return.
ForBiosample ==
    /\ pc = "for_biosample"
    /\ IF bidx <= Len(biosample_ids)
       THEN /\ current_ids' = <<biosample_ids[bidx]>>
            /\ collected_data_objects' = <<>>
            /\ loop_heads' = {}
            /\ pc' = "while"
       ELSE /\ pc' = "done"
            /\ UNCHANGED <<current_ids, collected_data_objects, loop_heads>>
    /\ UNCHANGED <<mdb, study_id, study, biosample_ids, bidx, cidx, new_current_ids,
                   has_output, oidx, biosample_data_objects, raised, queried>>
    /\ UNCHANGED nonResolverVars

\* A slip: the entry is appended without the `if collected_data_objects` test.
EntryForUnguarded(biosample_id, collected) ==
    << [biosample_id |-> biosample_id, data_object_set |-> collected] >>

\* The entry a biosample contributes: none when it collected nothing.
EntryFor(biosample_id, collected) ==
    IF collected # <<>>
    THEN << [biosample_id |-> biosample_id, data_object_set |-> collected] >>
    ELSE <<>>

\* while current_ids: new_current_ids = []; and, once the frontier is empty,
\* if collected_data_objects: biosample_data_objects.append({...}).
While ==
    /\ pc = "while"
    /\ IF current_ids # <<>>
       THEN /\ new_current_ids' = <<>>
            /\ cidx' = 1
            /\ loop_heads' = loop_heads \cup {<<current_ids, collected_data_objects>>}
            /\ pc' = "for_current"
            /\ UNCHANGED <<bidx, biosample_data_objects>>
       ELSE /\ biosample_data_objects' =
                   biosample_data_objects
                   \o EntryFor(biosample_ids[bidx], collected_data_objects)
            /\ bidx' = bidx + 1
            /\ pc' = "for_biosample"
            /\ UNCHANGED <<new_current_ids, cidx, loop_heads>>
    /\ UNCHANGED <<mdb, study_id, study, biosample_ids, current_ids, has_output, oidx,
                   collected_data_objects, raised, queried>>
    /\ UNCHANGED nonResolverVars

\* for current_id in current_ids: document = mdb.alldocs.find_one(query);
\* continue when there is no document or no has_output; after the last id,
\* current_ids = new_current_ids.
ForCurrent ==
    /\ pc = "for_current"
    /\ IF cidx <= Len(current_ids)
       THEN LET document == find_one(mdb.alldocs, "has_input", current_ids[cidx])
            IN /\ queried' = queried \cup {"alldocs"}
               /\ IF document = None \/ NotGet(document, "has_output")
                  THEN /\ cidx' = cidx + 1
                       /\ UNCHANGED <<has_output, oidx, pc>>
                  ELSE /\ has_output' = document.has_output
                       /\ oidx' = 1
                       /\ pc' = "for_output"
                       /\ UNCHANGED cidx
               /\ UNCHANGED current_ids
       ELSE /\ current_ids' = new_current_ids
            /\ pc' = "while"
            /\ UNCHANGED <<cidx, has_output, oidx, queried>>
    /\ UNCHANGED <<mdb, study_id, study, biosample_ids, bidx, new_current_ids,
                   collected_data_objects, biosample_data_objects, raised, loop_heads>>
    /\ UNCHANGED nonResolverVars

\* for output_id in has_output: collect the data object's record, or put the
\* id on the next frontier; an exception of the classification leaves the handler.
\* A run whose lists outgrow MaxFrontier or MaxCollected is cut.
ForOutput ==
    /\ pc = "for_output"
    /\ IF oidx <= Len(has_output)
       THEN LET output_id == has_output[oidx]
                cls == get_classname_from_typecode(output_id)
            IN IF cls.kind = "raise"
               THEN /\ raised' = cls.val
                    /\ pc' = "raised"
                    /\ UNCHANGED <<oidx, cidx, new_current_ids, collected_data_objects,
                                   queried>>
               ELSE IF cls = Ret(<<"DataObject">>)
               THEN LET data_object_doc == find_one_by_id(mdb.data_object_set, output_id)
                    IN /\ queried' = queried \cup {"data_object_set"}
                       /\ IF data_object_doc # None
                          THEN IF Len(collected_data_objects) < MaxCollected
                               THEN /\ collected_data_objects' =
                                          Append(collected_data_objects,
                                                 strip_oid(data_object_doc))
                                    /\ oidx' = oidx + 1
                                    /\ UNCHANGED pc
                               ELSE /\ pc' = "cut"
                                    /\ UNCHANGED <<oidx, collected_data_objects>>
                          ELSE /\ oidx' = oidx + 1
                               /\ UNCHANGED <<pc, collected_data_objects>>
                       /\ UNCHANGED <<cidx, new_current_ids, raised>>
               ELSE /\ IF Len(new_current_ids) < MaxFrontier
                       THEN /\ new_current_ids' = Append(new_current_ids, output_id)
                            /\ oidx' = oidx + 1
                            /\ UNCHANGED pc
                       ELSE /\ pc' = "cut"
                            /\ UNCHANGED <<oidx, new_current_ids>>
                    /\ UNCHANGED <<cidx, collected_data_objects, raised, queried>>
       ELSE /\ cidx' = cidx + 1
            /\ pc' = "for_current"
            /\ UNCHANGED <<oidx, new_current_ids, collected_data_objects, raised, queried>>
    /\ UNCHANGED <<mdb, study_id, study, biosample_ids, bidx, current_ids, has_output,
                   biosample_data_objects, loop_heads>>
    /\ UNCHANGED nonResolverVars


-----------------------------------------------------------------------------
(* What the claims about find_data_objects_for_study speak of.             *)

Ended == pc \in {"done", "raised", "cut"}

IsDataObjectId(id) == get_classname_from_typecode(id) = Ret(<<"DataObject">>)

\* The biosamples of the requested study, in lookup order.
StudyBiosampleIds ==
    LET biosamples == find(mdb.biosample_set, "part_of", study_id)
    IN [i \in 1..Len(biosamples) |-> biosamples[i].id]

StudyExists == find_one_by_id(mdb.study_set, study_id) # None

\* The process-edge relation of the whole store: every edge record counts.
EdgeOutputs(x) ==
    UNION { Range(mdb.alldocs[i].has_output) :
              i \in { j \in 1..Len(mdb.alldocs) :
                        /\ Matches(mdb.alldocs[j], "has_input", x)
                        /\ "has_output" \in DOMAIN mdb.alldocs[j] } }

RECURSIVE ReachableFrom(_, _)
\* The ids reachable from the ids of `frontier` through non-DataObject ids.
ReachableFrom(frontier, seen) ==
    LET next == UNION {EdgeOutputs(x) : x \in {y \in frontier : ~IsDataObjectId(y)}}
        new == next \ seen
    IN IF new = {} THEN seen ELSE ReachableFrom(new, seen \cup new)

Reachable(x) == ReachableFrom({x}, {})

StoreIds ==
    UNION { Range(mdb.alldocs[i].has_input) : i \in 1..Len(mdb.alldocs) }

AcyclicStore == \A x \in StoreIds : x \notin Reachable(x)

StoredDataObject(id) == find_one_by_id(mdb.data_object_set, id)

\* The data objects the result lists for a biosample.
ResultFor(b) ==
    UNION { Range(biosample_data_objects[i].data_object_set) :
              i \in { j \in 1..Len(biosample_data_objects) :
                        biosample_data_objects[j].biosample_id = b } }

\* C1: when the call has returned over an acyclic store, every stored data
\* object reachable from a biosample of the study over the process edges (all
\* edge records of a frontier id, not one of them) is in that biosample's entry.
C1_CollectsAllReachable ==
    (pc = "done" /\ AcyclicStore) =>
        \A b \in Range(StudyBiosampleIds) :
            \A d \in {x \in Reachable(b) : IsDataObjectId(x)} :
                StoredDataObject(d) # None =>
                    strip_oid(StoredDataObject(d)) \in ResultFor(b)

\* C2: the call terminates over every finite store, cyclic ones included.  The
\* handler is deterministic, so it terminates only if its while loop never begins a
\* pass with a frontier and a collected list with which it has begun one before
\* (what a visited set or a depth bound would rule out).
C2_Terminates ==
    pc = "while" => <<current_ids, collected_data_objects>> \notin loop_heads

\* What find_one lets the traversal see of a frontier id: the has_output of
\* the first edge record naming it, or nothing.
FirstOutputs(x) ==
    LET document == find_one(mdb.alldocs, "has_input", x)
    IN IF document = None \/ NotGet(document, "has_output")
       THEN <<>> ELSE document.has_output

RECURSIVE FlatMap(_, _)
FlatMap(Op(_), q) == IF q = <<>> THEN <<>> ELSE Op(Head(q)) \o FlatMap(Op, Tail(q))

\* The data-object records found at one BFS level, in frontier order and then
\* has_output order, and the next level's frontier.
FoundOf(x) ==
    LET outs == SelectSeq(FirstOutputs(x),
                          LAMBDA o : IsDataObjectId(o) /\ StoredDataObject(o) # None)
    IN [i \in 1..Len(outs) |-> strip_oid(StoredDataObject(outs[i]))]
NextOf(x) == SelectSeq(FirstOutputs(x), LAMBDA o : ~IsDataObjectId(o))

RECURSIVE LevelOrder(_)
\* Level k's finds before level k+1's, down to the empty frontier.
LevelOrder(frontier) ==
    IF frontier = <<>> THEN <<>>
    ELSE FlatMap(FoundOf, frontier) \o LevelOrder(FlatMap(NextOf, frontier))

ExpectedEntry(b) ==
    LET found == LevelOrder(<<b>>)
    IN IF found = <<>> THEN <<>>
       ELSE << [biosample_id |-> b, data_object_set |-> found] >>

ReachedDataObjects ==
    UNION { {x \in Reachable(b) : IsDataObjectId(x) /\ StoredDataObject(x) # None} :
              b \in Range(StudyBiosampleIds) }

\* C9: an unknown study ends the call with a 404 before any other collection
\* is queried; an existing study with no biosamples, or whose biosamples reach
\* no data object, ends it with an empty list and never with an error.
C9_NotFoundOrEmptyList ==
    /\ (pc \in {"done", "raised"} /\ ~StudyExists) =>
           /\ pc = "raised"
           /\ raised = <<"404", "Study not found">>
           /\ queried = {"study_set"}
    /\ (pc \in {"done", "raised"} /\ StudyExists /\ ReachedDataObjects = {}) =>
           /\ pc = "done"
           /\ biosample_data_objects = <<>>

\* The typecode of an id as the claim reads it: the text after the first ":"
\* and before the following "-"; and the class the registry gives it.
TextTypecode(id) ==
    LET c == CHOOSE k \in 1..Len(id) : id[k] = ":" /\ \A j \in 1..(k - 1) : id[j] # ":"
        rest == SubSeq(id, c + 1, Len(id))
        dashes == {k \in 1..Len(rest) : rest[k] = "-"}
    IN IF dashes = {} THEN rest
       ELSE SubSeq(rest, 1, (CHOOSE k \in dashes : \A j \in dashes : k <= j) - 1)

RegistryClass(id) ==
    IF ":" \notin Range(id) THEN RetNone
    ELSE LET known == {e \in Range(typecodes) : e.name = TextTypecode(id)}
         IN IF known = {} THEN RetNone
            ELSE Ret(<<(CHOOSE e \in known : TRUE).schema_class[3]>>)

\* C10: classifying an id gives the registry's class of its typecode, or None
\* for any other id, and never raises; so no has_output id aborts the call.
C10_ClassifiesOrNone ==
    /\ (pc = "for_output" /\ oidx <= Len(has_output)) =>
           get_classname_from_typecode(has_output[oidx]) = RegistryClass(has_output[oidx])
    /\ pc = "raised" => raised[1] = "404"

-----------------------------------------------------------------------------
(* drs_metadata_for(filepath, base) of nmdc_runtime/util.py.  A file is a  *)
(* record of its name, its content and its ctime; a path is the pair of a  *)
(* directory and a name.                                                   *)

\* None where a text is expected (mimetypes.guess_type finding no type).
NoneText == <<"None">>

\* os.path.getsize, os.path.getctime made a UTC datetime, sha256hash_from.
getsize(file) == Len(file.content)
created_time_of(file) == [timestamp |-> file.ctime, tz |-> "UTC"]
sha256hash_from(file) == <<"sha256">> \o file.content

\* mimetypes.guess_type(filepath)[0]: the type of the name's last extension.
guess_type(name) ==
    LET dots == {k \in 1..Len(name) : name[k] = "."}
        last == CHOOSE k \in dots : \A j \in dots : j <= k
    IN IF dots = {} \/ last = 1 \/ last = Len(name) THEN NoneText
       ELSE LET ext == SubSeq(name, last + 1, Len(name))
            IN IF ext = <<"json">> THEN <<"application/json">>
               ELSE IF ext = <<"txt">> THEN <<"text/plain">>
               ELSE NoneText

\* base[key] = value when key is not in base; base itself otherwise.
SetDefault(base, key, value) ==
    IF key \in DOMAIN base THEN base
    ELSE [k \in DOMAIN base \cup {key} |-> IF k = key THEN value ELSE base[k]]

\* A slip: the size is computed whether or not the caller gave one.
FillSizeAlways(file, base) ==
    [k \in DOMAIN base \cup {"size"} |-> IF k = "size" THEN getsize(file) ELSE base[k]]

\* The five `if key not in base` statements, in the order of the source.
FillSize(file, base) == SetDefault(base, "size", getsize(file))
FillCreatedTime(file, base) == SetDefault(base, "created_time", created_time_of(file))
FillChecksums(file, base) ==
    SetDefault(base, "checksums",
               << [type |-> "sha-256", checksum |-> sha256hash_from(file)] >>)
FillMimeType(file, base) == SetDefault(base, "mime_type", guess_type(file.name))
FillName(file, base) == SetDefault(base, "name", file.name)

drs_metadata_for(file, base) ==
    FillName(file, FillMimeType(file, FillChecksums(file,
        FillCreatedTime(file, FillSize(file, IF base = None THEN <<>> ELSE base)))))

DescriptorKeys == {"size", "created_time", "checksums", "mime_type", "name"}
CheckOrder == <<"size", "created_time", "checksums", "mime_type", "name">>

\* The files and the base mappings a call of the builder is given.
MetaFiles ==
    { [name |-> <<"m", ".", "json">>, content |-> <<"{", "}">>, ctime |-> 7],
      [name |-> <<"readme">>, content |-> <<>>, ctime |-> 9],
      [name |-> <<"notes", ".", "txt">>, content |-> <<"a", "b", "c">>, ctime |-> 8] }

CallerValue ==
    [size |-> 42,
     created_time |-> [timestamp |-> 0, tz |-> "UTC"],
     checksums |-> << [type |-> "md5", checksum |-> <<"abc">>] >>,
     mime_type |-> <<"image/png">>,
     name |-> <<"given">>,
     access_methods |-> << [access_id |-> <<"site", ":", "obj">>] >>]

BaseChoices ==
    {None} \cup { [k \in K |-> CallerValue[k]] : K \in SUBSET DOMAIN CallerValue }

MetaIdle ==
    /\ mpc = "idle"
    /\ mfile = None
    /\ mbase = <<>>
    /\ mbase0 = None

MetaInit ==
    /\ mpc = "call"
    /\ mfile \in MetaFiles
    /\ mbase0 \in BaseChoices
    /\ mbase = <<>>

\* base = {} if base is None else base
MetaBegin ==
    /\ mpc = "call"
    /\ mbase' = IF mbase0 = None THEN <<>> ELSE mbase0
    /\ mpc' = "size"
    /\ UNCHANGED <<mfile, mbase0>>
    /\ UNCHANGED nonMetaVars

\* if "size" not in base
CheckSize ==
    /\ mpc = "size"
    /\ mbase' = FillSize(mfile, mbase)
    /\ mpc' = "created_time"
    /\ UNCHANGED <<mfile, mbase0>>
    /\ UNCHANGED nonMetaVars

\* if "created_time" not in base
CheckCreatedTime ==
    /\ mpc = "created_time"
    /\ mbase' = FillCreatedTime(mfile, mbase)
    /\ mpc' = "checksums"
    /\ UNCHANGED <<mfile, mbase0>>
    /\ UNCHANGED nonMetaVars

\* if "checksums" not in base
CheckChecksums ==
    /\ mpc = "checksums"
    /\ mbase' = FillChecksums(mfile, mbase)
    /\ mpc' = "mime_type"
    /\ UNCHANGED <<mfile, mbase0>>
    /\ UNCHANGED nonMetaVars

\* if "mime_type" not in base
CheckMimeType ==
    /\ mpc = "mime_type"
    /\ mbase' = FillMimeType(mfile, mbase)
    /\ mpc' = "name"
    /\ UNCHANGED <<mfile, mbase0>>
    /\ UNCHANGED nonMetaVars

\* if "name" not in base
CheckName ==
    /\ mpc = "name"
    /\ mbase' = FillName(mfile, mbase)
    /\ mpc' = "return"
    /\ UNCHANGED <<mfile, mbase0>>
    /\ UNCHANGED nonMetaVars

\* return base
MetaReturn ==
    /\ mpc = "return"
    /\ mpc' = "returned"
    /\ UNCHANGED <<mfile, mbase, mbase0>>
    /\ UNCHANGED nonMetaVars

\* The keys the caller passed.
GivenKeys == IF mbase0 = None THEN {} ELSE DOMAIN mbase0

\* The keys the builder has passed by the time it is at a position.
CheckedBefore(at) ==
    IF at \in {"return", "returned"} THEN DescriptorKeys
    ELSE IF at \in {"idle", "call"} THEN {}
    ELSE {CheckOrder[i] : i \in {j \in 1..Len(CheckOrder) :
                                   \E k \in (j + 1)..Len(CheckOrder) : CheckOrder[k] = at}}

Computed(file) ==
    [size |-> getsize(file),
     created_time |-> created_time_of(file),
     checksums |-> << [type |-> "sha-256", checksum |-> sha256hash_from(file)] >>,
     mime_type |-> guess_type(file.name),
     name |-> file.name]

\* C7: every key of the caller's base keeps the caller's value at every point
\* of the builder; the builder fills size, created_time, checksums, mime_type and
\* name, in that order, with the file's values exactly when the key is absent;
\* and the descriptor it returns has all five keys and no key beside them and
\* the caller's.
C7_FillsOnlyGaps ==
    mpc \notin {"idle", "call"} =>
        /\ \A k \in GivenKeys : k \in DOMAIN mbase /\ mbase[k] = mbase0[k]
        /\ DOMAIN mbase = GivenKeys \cup CheckedBefore(mpc)
        /\ \A k \in CheckedBefore(mpc) \ GivenKeys : mbase[k] = Computed(mfile)[k]
        /\ mpc = "returned" =>
               /\ DescriptorKeys \subseteq DOMAIN mbase
               /\ mbase = drs_metadata_for(mfile, mbase0)

\* The builder has returned for a base with size 42 and access_methods but no
\* name, over a file whose size is not 42.
C7_Witness ==
    /\ mpc = "returned"
    /\ {"size", "access_methods"} \subseteq GivenKeys
    /\ "name" \notin GivenKeys
    /\ mbase.size = 42
    /\ getsize(mfile) # 42
    /\ mbase.name = mfile.name

-----------------------------------------------------------------------------
(* drs_object_in_for(url) of site/drsobjects/registration.py, with the     *)
(* scratch storage the calls in flight share.  A url is its text in        *)
(* tokens, "://", "/", "." and ":" being tokens of their own.              *)

Calls == 1..NumCalls

RECURSIVE Join(_, _)
\* sep.join(parts)
Join(parts, sep) ==
    IF parts = <<>> THEN <<>>
    ELSE IF Len(parts) = 1 THEN parts[1]
    ELSE parts[1] \o <<sep>> \o Join(Tail(parts), sep)

Reversed(q) == [i \in 1..Len(q) |-> q[Len(q) + 1 - i]]

\* text.replace(old, new), for one-token old and new.
Replace(text, old, new) ==
    [i \in 1..Len(text) |-> IF text[i] = old THEN new ELSE text[i]]

\* pattern.match(url) for r"https?://(?P<domain>[^/]+)/(?P<path>.+)": the
\* groups, or None.
pattern_match(url) ==
    LET slashes == {k \in 4..Len(url) : url[k] = "/"}
    IN IF /\ Len(url) >= 5
          /\ url[1] \in {"http", "https"}
          /\ url[2] = "://"
          /\ url[3] # "/"
          /\ \E k \in slashes : k < Len(url)
       THEN LET k == CHOOSE j \in slashes : \A i \in slashes : j <= i
            IN [domain |-> SubSeq(url, 3, k - 1), path |-> SubSeq(url, k + 1, Len(url))]
       ELSE None

url_to_name(url) ==
    LET m == pattern_match(url)
    IN IF m = None THEN Raise(<<"AttributeError">>)
       ELSE Ret(Join(Reversed(Split(m.domain, ".")), ".")
                \o <<"__">> \o Replace(m.path, "/", "."))

\* response.json(): the decoded body, or an exception.
json_loads(body) ==
    IF /\ Len(body) >= 2
       /\ <<body[1], body[Len(body)]>> \in {<<"{", "}">>, <<"[", "]">>}
    THEN Ret([json |-> body])
    ELSE Raise(<<"JSONDecodeError">>)

\* A slip: the body is decoded before the status is looked at.
response_to_json_decoding_first(resp) ==
    IF json_loads(resp.body).kind = "raise" THEN Raise(<<"HttpResponseNotJson">>)
    ELSE IF resp.status_code # 200 THEN Raise(<<"HttpResponseNotOk">>)
    ELSE json_loads(resp.body)

response_to_json(resp) ==
    IF resp.status_code # 200 THEN Raise(<<"HttpResponseNotOk">>)
    ELSE IF json_loads(resp.body).kind = "raise" THEN Raise(<<"HttpResponseNotJson">>)
    ELSE json_loads(resp.body)

\* The urls asked for, and what fetch_url (requests.get with a timeout) can
\* come back with: a response, or an exception.
Urls ==
    { <<"http", "://", "host", ":", "8080", "/", "m", "/", "a", ".", "json">>,
      <<"https", "://", "host">> }

Responses ==
    [status_code : {200, 500},
     body : { <<"{", "}">>, <<"<html>">> }]

FetchOutcomes == {Ret(r) : r \in Responses} \cup {Raise(<<"Timeout">>)}

\* TemporaryDirectory(): a directory no other call has.
TempDirName(n) == <<"tmp", n>>

\* DrsObjectIn(**fields), the typed record.
DrsObjectIn(fields) == [type |-> "DrsObjectIn", fields |-> fields]

RegIdle ==
    /\ dirs = {}
    /\ files = {}
    /\ next_tmp = 0
    /\ rpc = [c \in Calls |-> "idle"]
    /\ rurl = [c \in Calls |-> <<>>]
    /\ save_dir = [c \in Calls |-> <<>>]
    /\ response = [c \in Calls |-> None]
    /\ json_data = [c \in Calls |-> None]
    /\ filepath = [c \in Calls |-> <<>>]
    /\ outcome = [c \in Calls |-> None]
    /\ fetch_raised = [c \in Calls |-> FALSE]
    /\ written = [c \in Calls |-> 0]
    /\ built = [c \in Calls |-> FALSE]

\* drs_object_in_for(url) is called.
RegCall(c) ==
    /\ rpc[c] = "idle"
    /\ \E url \in Urls : rurl' = [rurl EXCEPT ![c] = url]
    /\ rpc' = [rpc EXCEPT ![c] = "enter"]
    /\ UNCHANGED <<dirs, files, next_tmp, save_dir, response, json_data, filepath,
                   outcome, fetch_raised, written, built>>
    /\ UNCHANGED nonRegVars

\* with TemporaryDirectory() as save_dir:
EnterWith(c) ==
    /\ rpc[c] = "enter"
    /\ next_tmp' = next_tmp + 1
    /\ save_dir' = [save_dir EXCEPT ![c] = TempDirName(next_tmp + 1)]
    /\ dirs' = dirs \cup {TempDirName(next_tmp + 1)}
    /\ rpc' = [rpc EXCEPT ![c] = "fetch"]
    /\ UNCHANGED <<files, rurl, response, json_data, filepath, outcome, fetch_raised,
                   written, built>>
    /\ UNCHANGED nonRegVars

\* response = fetch_url(url): outside the try, so what it raises leaves the call.
Fetch(c) ==
    /\ rpc[c] = "fetch"
    /\ \E got \in FetchOutcomes :
          IF got.kind = "raise"
          THEN /\ outcome' = [outcome EXCEPT ![c] = [exception |-> got.val]]
               /\ fetch_raised' = [fetch_raised EXCEPT ![c] = TRUE]
               /\ rpc' = [rpc EXCEPT ![c] = "exit"]
               /\ UNCHANGED response
          ELSE /\ response' = [response EXCEPT ![c] = got.val]
               /\ rpc' = [rpc EXCEPT ![c] = "to_json"]
               /\ UNCHANGED <<outcome, fetch_raised>>
    /\ UNCHANGED <<dirs, files, next_tmp, rurl, save_dir, json_data, filepath, written,
                   built>>
    /\ UNCHANGED nonRegVars

\* try: json_data = response_to_json(response), and the two except clauses.
ToJson(c) ==
    /\ rpc[c] = "to_json"
    /\ LET got == response_to_json(response[c])
       IN IF got.kind = "raise"
          THEN /\ outcome' = [outcome EXCEPT ![c] = [error |-> got.val[1]]]
               /\ rpc' = [rpc EXCEPT ![c] = "exit"]
               /\ UNCHANGED json_data
          ELSE /\ json_data' = [json_data EXCEPT ![c] = got.val]
               /\ rpc' = [rpc EXCEPT ![c] = "write"]
               /\ UNCHANGED outcome
    /\ UNCHANGED <<dirs, files, next_tmp, rurl, save_dir, response, filepath,
                   fetch_raised, written, built>>
    /\ UNCHANGED nonRegVars

\* filepath = json_data_from_url_to_file(json_data, url, save_dir): the name
\* may not be had (the url does not match), open may fail, json.dump may fail
\* on the opened file, or the file is written.
WriteFile(c) ==
    /\ rpc[c] = "write"
    /\ LET name == url_to_name(rurl[c])
       IN IF name.kind = "raise"
          THEN /\ outcome' = [outcome EXCEPT ![c] = [exception |-> name.val]]
               /\ rpc' = [rpc EXCEPT ![c] = "exit"]
               /\ UNCHANGED <<files, filepath, written>>
          ELSE \/ /\ outcome' = [outcome EXCEPT ![c] = [exception |-> <<"OSError">>]]
                  /\ rpc' = [rpc EXCEPT ![c] = "exit"]
                  /\ \/ UNCHANGED <<files, written>>
                     \/ /\ files' = files \cup {<<save_dir[c], name.val, <<>>, next_tmp>>}
                        /\ written' = [written EXCEPT ![c] = @ + 1]
                  /\ UNCHANGED filepath
               \/ /\ files' = files \cup
                        {<<save_dir[c], name.val, json_data[c].json, next_tmp>>}
                  /\ written' = [written EXCEPT ![c] = @ + 1]
                  /\ filepath' = [filepath EXCEPT ![c] = <<save_dir[c], name.val>>]
                  /\ rpc' = [rpc EXCEPT ![c] = "build"]
                  /\ UNCHANGED outcome
    /\ UNCHANGED <<dirs, next_tmp, rurl, save_dir, response, json_data, fetch_raised,
                   built>>
    /\ UNCHANGED nonRegVars

\* The file at a path, as drs_metadata_for reads it.
FileAt(path) ==
    LET f == CHOOSE g \in files : g[1] = path[1] /\ g[2] = path[2]
    IN [name |-> f[2], content |-> f[3], ctime |-> f[4]]

\* drs_object_in = DrsObjectIn(**drs_metadata_for(filepath, {...})), which may
\* reject the fields; return {"result": drs_object_in}.
Build(c) ==
    /\ rpc[c] = "build"
    /\ LET fields == drs_metadata_for(
                         FileAt(filepath[c]),
                         [access_methods |-> << [access_url |-> [url |-> rurl[c]]] >>,
                          name |-> Replace(filepath[c][2], ":", "-")])
       IN \/ outcome' = [outcome EXCEPT ![c] = [result |-> DrsObjectIn(fields)]]
          \/ outcome' = [outcome EXCEPT ![c] = [exception |-> <<"ValidationError">>]]
    /\ built' = [built EXCEPT ![c] = TRUE]
    /\ rpc' = [rpc EXCEPT ![c] = "exit"]
    /\ UNCHANGED <<dirs, files, next_tmp, rurl, save_dir, response, json_data, filepath,
                   fetch_raised, written>>
    /\ UNCHANGED nonRegVars

\* A slip: the directory is removed on the way out of a result only.
DirsAfterExitOfResult(c) ==
    IF "result" \in DOMAIN outcome[c] THEN dirs \ {save_dir[c]} ELSE dirs

\* The dirs left when a call leaves its `with` block.
DirsAfterExit(c) == dirs \ {save_dir[c]}

\* TemporaryDirectory.__exit__: on a return and on an exception alike.
ExitWith(c) ==
    /\ rpc[c] = "exit"
    /\ dirs' = DirsAfterExit(c)
    /\ files' = {f \in files : f[1] \in dirs'}
    /\ rpc' = [rpc EXCEPT ![c] = "ended"]
    /\ UNCHANGED <<next_tmp, rurl, save_dir, response, json_data, filepath, outcome,
                   fetch_raised, written, built>>
    /\ UNCHANGED nonRegVars

-----------------------------------------------------------------------------
(* What the claims about drs_object_in_for speak of.                       *)

InFlight(c) == rpc[c] \in {"fetch", "to_json", "write", "build", "exit"}
HasEnded(c) == rpc[c] = "ended"
ScratchGone(c) == save_dir[c] \notin dirs /\ \A f \in files : f[1] # save_dir[c]
NotOk == [error |-> "HttpResponseNotOk"]
NotJson == [error |-> "HttpResponseNotJson"]

\* C4: a fetch that raises (a timeout) ends the call with the result
\* {error: HttpResponseNotOk}, never with the exception.
C4_FetchFailureIsNotOk ==
    \A c \in Calls : (HasEnded(c) /\ fetch_raised[c]) => outcome[c] = NotOk

\* C5: for a returned response, a status other than 200 gives HttpResponseNotOk
\* whatever the body, status 200 with an undecodable body gives
\* HttpResponseNotJson, a result comes only of status 200 with a decodable body,
\* and an error outcome has written no scratch file and built no descriptor.
C5_ErrorMapping ==
    \A c \in Calls :
        (rpc[c] \in {"exit", "ended"} /\ ~fetch_raised[c]) =>
            /\ response[c].status_code # 200 => outcome[c] = NotOk
            /\ (response[c].status_code = 200
                    /\ json_loads(response[c].body).kind = "raise") =>
                   outcome[c] = NotJson
            /\ "result" \in DOMAIN outcome[c] =>
                   /\ response[c].status_code = 200
                   /\ json_loads(response[c].body).kind = "return"
            /\ "error" \in DOMAIN outcome[c] => written[c] = 0 /\ ~built[c]

\* A call has ended with HttpResponseNotOk on a status-500 response whose body
\* is JSON, and another with HttpResponseNotJson.
C5_Witness ==
    \E c, d \in Calls :
        /\ HasEnded(c) /\ HasEnded(d)
        /\ outcome[c] = NotOk
        /\ outcome[d] = NotJson
        /\ response[c].status_code = 500
        /\ json_loads(response[c].body).kind = "return"

\* No two calls in flight have the same scratch directory, and every file
\* that exists lies in the directory of a call in flight.
ScratchExclusive ==
    /\ \A c, d \in Calls : (c # d /\ InFlight(c) /\ InFlight(d)) => save_dir[c] # save_dir[d]
    /\ \A c \in Calls : InFlight(c) => save_dir[c] \in dirs
    /\ \A f \in files : \E c \in Calls : InFlight(c) /\ f[1] = save_dir[c]

\* C6 as stated: every call has written exactly one scratch file when it ends,
\* its scratch directory and files are gone when it has ended, and the
\* directory is never shared.
C6_OneFileAlwaysAndCleanup ==
    /\ \A c \in Calls : HasEnded(c) => written[c] = 1 /\ ScratchGone(c)
    /\ ScratchExclusive

\* C6 as amended: a call writes at most one scratch file: exactly one when it
\* ends with a result, none when it ends with an error result or when the
\* fetch raised; however it ends, its scratch directory and files are gone
\* when it has ended; and the directory is never shared.
C6_AtMostOneFileAndCleanup ==
    /\ \A c \in Calls :
           /\ written[c] <= 1
           /\ HasEnded(c) =>
                  /\ ScratchGone(c)
                  /\ "result" \in DOMAIN outcome[c] => written[c] = 1
                  /\ ("error" \in DOMAIN outcome[c] \/ fetch_raised[c]) => written[c] = 0
    /\ ScratchExclusive

\* A call has ended with a result and one written file, another has ended with
\* an exception after its file was made; both directories are gone.
C6_Witness ==
    \E c, d \in Calls :
        /\ HasEnded(c) /\ HasEnded(d)
        /\ "result" \in DOMAIN outcome[c] /\ written[c] = 1
        /\ "exception" \in DOMAIN outcome[d] /\ written[d] = 1
        /\ ScratchGone(c) /\ ScratchGone(d)
        /\ dirs = {} /\ files = {}

-----------------------------------------------------------------------------
(* get_type_collections and specialize_activity_set_docs of                *)
(* site/drsobjects/registration.py.  A collection name is its text in      *)
(* tokens, the suffix "_set" being a token of its own; a mapping is a      *)
(* function on its keys.                                                   *)

ActivitySet == <<"activity", "_set">>
BiosampleSet == <<"biosample", "_set">>
MagsActivitySet == <<"mags_activity", "_set">>

DictSet(d, key, value) ==
    [k \in DOMAIN d \cup {key} |-> IF k = key THEN value ELSE d[k]]
DictDel(d, key) == [k \in DOMAIN d \ {key} |-> d[k]]
EmptyDict == <<>>

Ref(class) == <<"#", "/", "$defs", "/", class>>

\* The schemas loaded: their properties, with the class their items refer to.
SchemaChoices ==
    { << [name |-> <<"nmdc_schema_version">>],
         [name |-> ActivitySet, items_ref |-> Ref("WorkflowExecutionActivity")],
         [name |-> BiosampleSet, items_ref |-> Ref("Biosample")],
         [name |-> MagsActivitySet, items_ref |-> Ref("MagsAnalysisActivity")] >>,
      << [name |-> BiosampleSet, items_ref |-> Ref("Biosample")],
         [name |-> <<"nmdc_schema_version">>],
         [name |-> MagsActivitySet, items_ref |-> Ref("MagsAnalysisActivity")] >> }

\* collection_name.endswith("_set")
EndsWithSet(name) == name # <<>> /\ name[Len(name)] = "_set"

\* The key f'nmdc:{spec["items"]["$ref"].split("/")[-1]}' of a property.
TypeKey(prop) ==
    LET pieces == Split(prop.items_ref, "/")
    IN <<"nmdc", ":">> \o pieces[Len(pieces)]

\* The dict of the comprehension: type -> collection name, a later property
\* of the same type replacing an earlier one.
get_type_collections(schema) ==
    LET sets == {i \in 1..Len(schema) : EndsWithSet(schema[i].name)}
        keys == {TypeKey(schema[i]) : i \in sets}
    IN [t \in keys |->
           schema[CHOOSE i \in sets :
                      /\ TypeKey(schema[i]) = t
                      /\ \A j \in sets : TypeKey(schema[j]) = t => j <= i].name]

Type(class) == <<"nmdc", ":", class>>

\* The records an activity_set list is made of.
ActivityPool ==
    { [id |-> <<"a1">>, type |-> Type("MagsAnalysisActivity")],
      [id |-> <<"a2">>, type |-> Type("Biosample")],
      [id |-> <<"a3">>, type |-> Type("Bogus")],
      [type |-> Type("magsanalysisactivity")],
      [id |-> <<"a5">>, type |-> Type("WorkflowExecutionActivity")],
      [id |-> <<"a6">>] }

Existing == [id |-> <<"m0">>, type |-> Type("MagsAnalysisActivity")]

\* The docs mappings passed in.
DocsChoices ==
    { [k \in {BiosampleSet} |-> <<>>] }
    \cup { [k \in {ActivitySet} |-> q] : q \in SeqsNoRep(ActivityPool, MaxActivities) }
    \cup { [k \in {ActivitySet, MagsActivitySet} |->
               IF k = ActivitySet THEN q ELSE <<Existing>>] :
             q \in SeqsNoRep(ActivityPool, MaxActivities) }

ActIdle ==
    /\ nmdc_jsonschema = <<>>
    /\ apc = "idle"
    /\ docs = EmptyDict
    /\ docs0 = EmptyDict
    /\ validation_errors = EmptyDict
    /\ type_collections = EmptyDict
    /\ aidx = 0

ActInit ==
    /\ nmdc_jsonschema \in SchemaChoices
    /\ apc = "call"
    /\ docs0 \in DocsChoices
    /\ docs = docs0
    /\ validation_errors = EmptyDict
    /\ type_collections = EmptyDict
    /\ aidx = 0

\* validation_errors = {}; type_collections = get_type_collections();
\* if "activity_set" in docs:
SpecializeBegin ==
    /\ apc = "call"
    /\ validation_errors' = EmptyDict
    /\ type_collections' = get_type_collections(nmdc_jsonschema)
    /\ IF ActivitySet \in DOMAIN docs
       THEN apc' = "for_doc" /\ aidx' = 1
       ELSE apc' = "returned" /\ UNCHANGED aidx
    /\ UNCHANGED <<nmdc_jsonschema, docs, docs0>>
    /\ UNCHANGED nonActVars

\* The message of an unrecognized type.
Message(doc) ==
    <<"activity_set doc ">>
    \o (IF "id" \in DOMAIN doc THEN doc.id ELSE <<"<id missing>">>)
    \o <<" has type ">> \o doc.type
    \o <<", which is not in NMDC Schema. Note: Case is sensitive.">>

\* validation_errors["activity_set"].append(msg), the list being made at need.
WithMessage(errors, msg) ==
    IF ActivitySet \in DOMAIN errors
    THEN DictSet(errors, ActivitySet, Append(errors[ActivitySet], msg))
    ELSE DictSet(errors, ActivitySet, <<msg>>)

\* docs[collection_name].append(doc), the list being made at need.
WithPlacedDoc(d, collection_name, doc) ==
    IF collection_name \in DOMAIN d
    THEN DictSet(d, collection_name, Append(d[collection_name], doc))
    ELSE DictSet(d, collection_name, <<doc>>)

\* One pass of `for doc in docs["activity_set"]` over the list as it is now,
\* and `del docs["activity_set"]; return` after its last record.  A run whose
\* activity_set list outgrows MaxListLen is cut.
SpecializeForDoc ==
    /\ apc = "for_doc"
    /\ IF aidx <= Len(docs[ActivitySet])
       THEN LET doc == docs[ActivitySet][aidx]
            IN IF "type" \notin DOMAIN doc
               THEN /\ apc' = "raised"
                    /\ UNCHANGED <<docs, validation_errors, aidx>>
               ELSE IF doc.type \notin DOMAIN type_collections
               THEN /\ validation_errors' = WithMessage(validation_errors, Message(doc))
                    /\ aidx' = aidx + 1
                    /\ UNCHANGED <<docs, apc>>
               ELSE IF Len(docs[ActivitySet]) >= MaxListLen
               THEN /\ apc' = "cut"
                    /\ UNCHANGED <<docs, validation_errors, aidx>>
               ELSE /\ docs' = WithPlacedDoc(docs, type_collections[doc.type], doc)
                    /\ aidx' = aidx + 1
                    /\ UNCHANGED <<validation_errors, apc>>
       ELSE /\ docs' = DictDel(docs, ActivitySet)
            /\ apc' = "returned"
            /\ UNCHANGED <<validation_errors, aidx>>
    /\ UNCHANGED <<nmdc_jsonschema, docs0, type_collections>>
    /\ UNCHANGED nonActVars

-----------------------------------------------------------------------------
(* What the claim about specialize_activity_set_docs speaks of.            *)

Recognized(doc) == doc.type \in DOMAIN type_collections

\* The records of a list that the table sends to a collection, in list order.
SentTo(list, name) ==
    SelectSeq(list, LAMBDA d : Recognized(d) /\ type_collections[d.type] = name)

Before(name) == IF name \in DOMAIN docs0 THEN docs0[name] ELSE <<>>

BadOf(list) == SelectSeq(list, LAMBDA d : ~Recognized(d))

ErrorList == IF ActivitySet \in DOMAIN validation_errors
             THEN validation_errors[ActivitySet] ELSE <<>>

AllTyped(list) == \A i \in 1..Len(list) : "type" \in DOMAIN list[i]

\* The collections other than activity_set that the mapping or the table names.
OtherCollections ==
    (DOMAIN docs \cup DOMAIN docs0
       \cup {nmdc_jsonschema[i].name : i \in 1..Len(nmdc_jsonschema)})
    \ {ActivitySet}

RECURSIVE Growth(_)
\* By how many records the collections of a set have grown.
Growth(names) ==
    IF names = {} THEN 0
    ELSE LET n == CHOOSE x \in names : TRUE
         IN (IF n \in DOMAIN docs THEN Len(docs[n]) - Len(Before(n)) ELSE 0)
            + Growth(names \ {n})

\* The records redistributed so far: by how many records the collections of
\* docs have grown, activity_set among them while it is still there.
Redistributed == Growth(OtherCollections \cup {ActivitySet})

\* C8: for a docs mapping with an activity_set list whose records all carry a
\* type, every other collection holds what it held before followed by the
\* records passed so far that the table sends to it, in activity_set order;
\* validation_errors["activity_set"] holds one message per record passed so
\* far of unrecognized type, in order, and validation_errors is empty when
\* there is none; the redistributed records and the messages never number
\* more than the records of the original list, and number exactly as many
\* once the function has returned, activity_set being gone by then.
C8_RedistributesAndAccumulates ==
    (apc \in {"for_doc", "returned"} /\ ActivitySet \in DOMAIN docs0
         /\ AllTyped(docs0[ActivitySet])) =>
        LET passed == IF apc = "returned" THEN docs0[ActivitySet]
                      ELSE SubSeq(docs[ActivitySet], 1, aidx - 1)
        IN /\ \A n \in OtherCollections :
                  IF n \in DOMAIN docs
                  THEN docs[n] = Before(n) \o SentTo(passed, n)
                  ELSE n \notin DOMAIN docs0 /\ SentTo(passed, n) = <<>>
           /\ ErrorList = [i \in 1..Len(BadOf(passed)) |-> Message(BadOf(passed)[i])]
           /\ (BadOf(passed) = <<>>) = (validation_errors = EmptyDict)
           /\ Len(ErrorList) + Redistributed <= Len(docs0[ActivitySet])
           /\ apc = "returned" =>
                  /\ ActivitySet \notin DOMAIN docs
                  /\ Len(ErrorList) + Redistributed = Len(docs0[ActivitySet])

\* C11: specialize_activity_set_docs terminates for every docs mapping and
\* every table: the list under iteration is never extended by the
\* redistribution itself (while the loop runs, docs["activity_set"] is the
\* list the caller passed), so the loop passes each of its records once and
\* ends; no run goes on past MaxListLen records; and once the function has
\* returned, docs has no "activity_set" key.
C11_TerminatesWithoutActivitySet ==
    /\ apc = "for_doc" =>
           /\ docs[ActivitySet] = docs0[ActivitySet]
           /\ aidx <= Len(docs0[ActivitySet]) + 1
    /\ apc # "cut"
    /\ apc = "returned" => ActivitySet \notin DOMAIN docs

-----------------------------------------------------------------------------
(* The specifications.                                                     *)

ResolverIdle ==
    /\ mdb = None
    /\ pc = "off"
    /\ study_id = None
    /\ study = None
    /\ biosample_ids = <<>>
    /\ bidx = 0
    /\ current_ids = <<>>
    /\ cidx = 0
    /\ new_current_ids = <<>>
    /\ has_output = <<>>
    /\ oidx = 0
    /\ collected_data_objects = <<>>
    /\ biosample_data_objects = <<>>
    /\ raised = <<>>
    /\ queried = {}
    /\ loop_heads = {}

\* Requests for the data objects of a study, over the stores of ResolverInit.
ResolverNext ==
    \/ Request
    \/ FindStudy
    \/ FindBiosamples
    \/ ForBiosample
    \/ While
    \/ ForCurrent
    \/ ForOutput

ResolverSpecInit == ResolverInit /\ MetaIdle /\ RegIdle /\ ActIdle
ResolverSpec == ResolverSpecInit /\ [][ResolverNext]_vars

\* Calls of the descriptor builder.
MetaNext ==
    \/ MetaBegin
    \/ CheckSize
    \/ CheckCreatedTime
    \/ CheckChecksums
    \/ CheckMimeType
    \/ CheckName
    \/ MetaReturn

MetaSpecInit == MetaInit /\ ResolverIdle /\ RegIdle /\ ActIdle
MetaSpec == MetaSpecInit /\ [][MetaNext]_vars

\* Calls of drs_object_in_for, in flight together.
RegNext ==
    \E c \in Calls :
        \/ RegCall(c)
        \/ EnterWith(c)
        \/ Fetch(c)
        \/ ToJson(c)
        \/ WriteFile(c)
        \/ Build(c)
        \/ ExitWith(c)

RegSpecInit == RegIdle /\ ResolverIdle /\ MetaIdle /\ ActIdle
RegSpec == RegSpecInit /\ [][RegNext]_vars

\* Calls of specialize_activity_set_docs.
ActNext ==
    \/ SpecializeBegin
    \/ SpecializeForDoc

ActSpecInit == ActInit /\ ResolverIdle /\ MetaIdle /\ RegIdle
ActSpec == ActSpecInit /\ [][ActNext]_vars

=============================================================================
